---- MODULE Spec2Model ----
(***************************************************************************)
(* Model of src/hid-libusb.c: the HID request/reply engine built on        *)
(* libusb-1.0.  The program's statics (ctx, dev, transfer, receive_buf,    *)
(* nbytes_received), the locals of write_read / hid_send_recv that survive *)
(* a step (result, reply_len, data, rdata, rlength) and the position of    *)
(* the single flow of control (pc) are the state.  The transport (libusb   *)
(* and the device behind it) is the environment: every call into it draws  *)
(* its result, and the completion it may deliver, from a finite set.       *)
(***************************************************************************)
EXTENDS Integers, Sequences, FiniteSets, TLC

\* ------------------------------------------------------------------ bounds
MaxRLen == 2          \* longest reply a caller asks for in the model
MaxAttempts == 2      \* submissions per transaction the model follows
MaxHandles == 2       \* distinct addresses the allocator may hand out

\* ------------------------------------------------- constants of the program
RECEIVE_BUF_SIZE == 42            \* unsigned char receive_buf[42]

\* enum libusb_error, as used by the program
LIBUSB_ERROR_IO == -1
LIBUSB_ERROR_NO_DEVICE == -4
LIBUSB_ERROR_BUSY == -6
LIBUSB_ERROR_TIMEOUT == -7
LIBUSB_ERROR_OVERFLOW == -8
LIBUSB_ERROR_INTERRUPTED == -10
\* members of enum libusb_error the program does not name
LIBUSB_ERROR_PIPE == -9
LIBUSB_ERROR_OTHER == -99

\* what libusb_control_transfer may return besides the byte count
SendErrors == {LIBUSB_ERROR_TIMEOUT, LIBUSB_ERROR_NO_DEVICE, LIBUSB_ERROR_PIPE}
\* what libusb_handle_events may return besides 0
DispatchErrors ==
    {LIBUSB_ERROR_IO, LIBUSB_ERROR_NO_DEVICE, LIBUSB_ERROR_BUSY, LIBUSB_ERROR_TIMEOUT,
     LIBUSB_ERROR_OVERFLOW, LIBUSB_ERROR_INTERRUPTED, LIBUSB_ERROR_OTHER}

\* enum libusb_transfer_status; "NONE" stands for "no completion reported for
\* the current submission yet"
TransferStatus ==
    {"COMPLETED", "ERROR", "TIMED_OUT", "CANCELLED", "STALL", "NO_DEVICE", "OVERFLOW"}

NULL == 0
Bytes == {1, 2}                   \* reply bytes; 0 is the initial fill
Handles == 1..MaxHandles
Requests == {<<1>>, <<1, 2>>}     \* the request bytes are opaque to the engine

VARIABLES
    pc,               \* where the flow of control is
    ctx,              \* static libusb_context *ctx        (NULL or 1)
    dev,              \* static libusb_device_handle *dev  (NULL or 1)
    transfer,         \* static struct libusb_transfer *transfer (NULL or a handle)
    live,             \* the transfer descriptors allocated and not freed
    receive_buf,      \* static unsigned char receive_buf[42]
    nbytes_received,  \* static volatile int nbytes_received
    data,             \* the request passed to hid_send_recv
    rdata,            \* the caller's reply array = transfer->buffer
    rlength,          \* the reply length the caller expects = transfer->length
    result,           \* int result of write_read
    reply_len,        \* int reply_len of hid_send_recv
    inflight,         \* the transfer is submitted and has not completed
    t_status,         \* transfer->status handed to the last callback
    t_actual_length,  \* transfer->actual_length handed to the last callback
    wire,             \* the bytes the device delivered in the last completion
    overrun,          \* bytes the last memcpy wrote past the end of receive_buf
    submits,          \* libusb_submit_transfer calls of this transaction
    sends,            \* libusb_control_transfer calls of this transaction
    cancels,          \* libusb_cancel_transfer calls of this transaction
    ntimeouts,        \* TIMED_OUT completions of this transaction
    lastop            \* the last API step taken, for reading traces

vars == <<pc, ctx, dev, transfer, live, receive_buf, nbytes_received, data, rdata,
          rlength, result, reply_len, inflight, t_status, t_actual_length, wire,
          overrun, submits, sends, cancels, ntimeouts, lastop>>

session == <<ctx, dev>>
handle == <<transfer, live>>
call == <<data, rdata, rlength>>
xfer == <<inflight, t_status, t_actual_length, wire, receive_buf, nbytes_received,
          overrun>>
counts == <<submits, sends, cancels, ntimeouts>>

\* --------------------------------------------------------------- helpers
\* n bytes of src written over the start of dst (memcpy / a DMA into a buffer)
CopyInto(dst, src, n) ==
    [i \in 1..Len(dst) |-> IF i <= n /\ i <= Len(src) THEN src[i] ELSE dst[i]]

Zeros(n) == [i \in 1..n |-> 0]

\* how many of the n bytes of a copy into dst land beyond its end
Overrun(dst, n) == IF n > Len(dst) THEN n - Len(dst) ELSE 0

\* the replies of the model: n bytes of the same value
Payloads(n) == IF n = 0 THEN {<<>>} ELSE {[i \in 1..n |-> b] : b \in Bytes}

\* read_callback with the NO_DEVICE case falling into the TIMED_OUT case
read_callback_nodev_falls_through(status, actual_length, buffer, nb, rb) ==
    CASE status = "COMPLETED" ->
            [nbytes_received |-> actual_length,
             receive_buf |-> CopyInto(rb, buffer, actual_length),
             overrun |-> Overrun(rb, actual_length)]
      [] status = "CANCELLED" ->
            [nbytes_received |-> LIBUSB_ERROR_INTERRUPTED, receive_buf |-> rb, overrun |-> 0]
      [] status \in {"NO_DEVICE", "TIMED_OUT"} ->
            [nbytes_received |-> LIBUSB_ERROR_TIMEOUT, receive_buf |-> rb, overrun |-> 0]
      [] OTHER ->
            [nbytes_received |-> LIBUSB_ERROR_IO, receive_buf |-> rb, overrun |-> 0]

\* read_callback with the memcpy of the COMPLETED case left out
read_callback_without_copy(status, actual_length, buffer, nb, rb) ==
    CASE status = "COMPLETED" ->
            [nbytes_received |-> actual_length, receive_buf |-> rb, overrun |-> 0]
      [] status = "CANCELLED" ->
            [nbytes_received |-> LIBUSB_ERROR_INTERRUPTED, receive_buf |-> rb, overrun |-> 0]
      [] status = "NO_DEVICE" ->
            [nbytes_received |-> LIBUSB_ERROR_NO_DEVICE, receive_buf |-> rb, overrun |-> 0]
      [] status = "TIMED_OUT" ->
            [nbytes_received |-> LIBUSB_ERROR_TIMEOUT, receive_buf |-> rb, overrun |-> 0]
      [] OTHER ->
            [nbytes_received |-> LIBUSB_ERROR_IO, receive_buf |-> rb, overrun |-> 0]

\* read_callback, lines 48-76: the new (nbytes_received, receive_buf) and the
\* bytes its memcpy put beyond receive_buf
read_callback(status, actual_length, buffer, nb, rb) ==
    CASE status = "COMPLETED" ->
            [nbytes_received |-> actual_length,
             receive_buf |-> CopyInto(rb, buffer, actual_length),
             overrun |-> Overrun(rb, actual_length)]
      [] status = "CANCELLED" ->
            [nbytes_received |-> LIBUSB_ERROR_INTERRUPTED, receive_buf |-> rb, overrun |-> 0]
      [] status = "NO_DEVICE" ->
            [nbytes_received |-> LIBUSB_ERROR_NO_DEVICE, receive_buf |-> rb, overrun |-> 0]
      [] status = "TIMED_OUT" ->
            [nbytes_received |-> LIBUSB_ERROR_TIMEOUT, receive_buf |-> rb, overrun |-> 0]
      [] OTHER ->
            [nbytes_received |-> LIBUSB_ERROR_IO, receive_buf |-> rb, overrun |-> 0]

\* the transient codes with LIBUSB_ERROR_OVERFLOW forgotten
IsTransient_no_overflow(r) ==
    r \in {LIBUSB_ERROR_BUSY, LIBUSB_ERROR_TIMEOUT, LIBUSB_ERROR_INTERRUPTED}

\* the dispatch codes the wait loop does not break on, lines 114-117
IsTransient(r) ==
    r \in {LIBUSB_ERROR_BUSY, LIBUSB_ERROR_TIMEOUT, LIBUSB_ERROR_OVERFLOW,
           LIBUSB_ERROR_INTERRUPTED}

\* lines 112-121: the wait loop returns on this dispatch result
IsFatalDispatch(r) == r < 0 /\ ~IsTransient(r)

\* a descriptor allocated on every call
NeedsAlloc_always(t) == TRUE

\* line 87: no descriptor yet
NeedsAlloc(t) == t = NULL

\* line 89: the allocator hands out an address that is not in use
libusb_alloc_transfer(inuse) == CHOOSE h \in Handles : h \notin inuse /\ \A g \in Handles \ inuse : h <= g

\* only the generic error taken for a failed send
SendFailed_only_io(r) == r = LIBUSB_ERROR_IO

\* line 103: the send failed
SendFailed(r) == r < 0

\* line 110: the wait loop's condition
NoOutcomeYet(nb) == nb = 0

\* the transaction restarted on an I/O error too
IsRetry_on_io(nb) == nb \in {LIBUSB_ERROR_TIMEOUT, LIBUSB_ERROR_IO}

\* the timeout handed to the caller like any other status
IsRetry_never(nb) == FALSE

\* line 125: the outcome that restarts the transaction
IsRetry(nb) == nb = LIBUSB_ERROR_TIMEOUT

\* the label placed after the submission
RetryTarget_after_submit == "send"

\* line 129: goto again, the label of line 94
RetryTarget == "again"

\* the length of the reply not compared
ReplyAccepted_any_length(len, rlen) == ~(len < 0)

\* a reply shorter than asked for let through
ReplyAccepted_short_ok(len, rlen) == ~(len < 0) /\ ~(len > rlen)

\* the status of write_read not looked at
ReplyAccepted_always(len, rlen) == TRUE

\* lines 155-162: hid_send_recv returns to its caller (otherwise exit(-1))
ReplyAccepted(len, rlen) == ~(len < 0) /\ ~(len # rlen)

\* ------------------------------------------------------------ environment
\* What a call that processes transport events may do to the armed receive:
\* nothing, or complete it with a status, a length and the bytes received.
NoEvent == [kind |-> "none"]

\* the lengths a completion may report for a receive of rlen bytes: all of
\* them for the short replies, the ends and the buffer size for long ones
ReplyLengths(rlen) ==
    IF rlen <= MaxRLen THEN 0..rlen ELSE {0, RECEIVE_BUF_SIZE, rlen}
Completions(rlen, attempts) ==
    {[kind |-> "done", status |-> s, bytes |-> b] :
        s \in IF attempts < MaxAttempts THEN TransferStatus
                                        ELSE TransferStatus \ {"TIMED_OUT"},
        b \in UNION {Payloads(n) : n \in ReplyLengths(rlen)}}

Events(armed, rlen, attempts) ==
    IF armed THEN {NoEvent} \cup Completions(rlen, attempts) ELSE {NoEvent}

\* The transport completes the armed receive and runs the callback (ev is a
\* completion), or leaves everything alone (ev is NoEvent).
Deliver(ev) ==
    IF ev.kind = "none"
    THEN UNCHANGED <<xfer, rdata, ntimeouts>>
    ELSE LET n == Len(ev.bytes)
             buf == CopyInto(rdata, ev.bytes, n)
             cb == read_callback(ev.status, n, buf, nbytes_received, receive_buf)
         IN /\ rdata' = buf
            /\ inflight' = FALSE
            /\ t_status' = ev.status
            /\ t_actual_length' = n
            /\ wire' = ev.bytes
            /\ nbytes_received' = cb.nbytes_received
            /\ receive_buf' = cb.receive_buf
            /\ overrun' = cb.overrun
            /\ ntimeouts' = IF ev.status = "TIMED_OUT" THEN ntimeouts + 1 ELSE ntimeouts

\* ------------------------------------------------------------------ Init
\* the statics as the loader leaves them, no call made yet
Init ==
    /\ pc = "idle"
    /\ ctx = NULL
    /\ dev = NULL
    /\ transfer = NULL
    /\ live = {}
    /\ receive_buf = Zeros(RECEIVE_BUF_SIZE)
    /\ nbytes_received = 0
    /\ data = <<>>
    /\ rdata = <<>>
    /\ rlength = 0
    /\ result = 0
    /\ reply_len = 0
    /\ inflight = FALSE
    /\ t_status = "NONE"
    /\ t_actual_length = 0
    /\ wire = <<>>
    /\ overrun = 0
    /\ submits = 0
    /\ sends = 0
    /\ cancels = 0
    /\ ntimeouts = 0
    /\ lastop = "none"

\* exit(-1): the process and all its memory are gone
Terminated ==
    /\ pc' = "exited"
    /\ ctx' = NULL
    /\ dev' = NULL
    /\ transfer' = NULL
    /\ live' = {}
    /\ receive_buf' = Zeros(RECEIVE_BUF_SIZE)
    /\ nbytes_received' = 0
    /\ data' = <<>>
    /\ rdata' = <<>>
    /\ rlength' = 0
    /\ result' = 0
    /\ reply_len' = 0
    /\ inflight' = FALSE
    /\ t_status' = "NONE"
    /\ t_actual_length' = 0
    /\ wire' = <<>>
    /\ overrun' = 0
    /\ submits' = 0
    /\ sends' = 0
    /\ cancels' = 0
    /\ ntimeouts' = 0
    /\ lastop' = "none"

\* --------------------------------------------------------------- session
\* hid_init, lines 178-235, device found and interface claimed
hid_init_ok ==
    /\ pc = "idle"
    /\ ctx' = 1
    /\ dev' = 1
    /\ lastop' = "hid_init"
    /\ UNCHANGED <<pc, handle, call, xfer, counts, result, reply_len>>

\* hid_init, lines 187-196: no such device, returns -1
hid_init_notfound ==
    /\ pc = "idle"
    /\ ctx' = NULL
    /\ dev' = NULL
    /\ lastop' = "hid_init_notfound"
    /\ UNCHANGED <<pc, handle, call, xfer, counts, result, reply_len>>

\* hid_init, lines 180-185 and 204-212: libusb_init or the claim fails, exit(-1)
hid_init_exit ==
    /\ pc = "idle"
    /\ Terminated

\* hid_close, lines 237-250
hid_close ==
    /\ pc = "idle"
    /\ IF ctx = NULL
       THEN UNCHANGED <<session, handle>>
       ELSE /\ live' = IF transfer # NULL THEN live \ {transfer} ELSE live
            /\ transfer' = NULL
            /\ ctx' = NULL
            /\ UNCHANGED dev
    /\ lastop' = "hid_close"
    /\ UNCHANGED <<pc, call, xfer, counts, result, reply_len>>

\* ----------------------------------------------------------- transaction
\* hid_send_recv entered, line 153, and write_read lines 87-93: the descriptor
\* is allocated if there is none and filled with the caller's reply array.
Call(lengths) ==
    /\ pc = "idle"
    /\ ctx # NULL
    /\ \E d \in Requests, rl \in lengths :
          /\ data' = d
          /\ rlength' = rl
          /\ rdata' = Zeros(rl)
    /\ IF NeedsAlloc(transfer)
       THEN transfer' = libusb_alloc_transfer(live) /\ live' = live \cup {transfer'}
       ELSE UNCHANGED handle
    /\ submits' = 0 /\ sends' = 0 /\ cancels' = 0 /\ ntimeouts' = 0
    /\ result' = 0 /\ reply_len' = 0
    /\ pc' = "again"
    /\ lastop' = "hid_send_recv"
    /\ UNCHANGED <<session, xfer>>

\* the replies of the protocol fit the receive buffer
hid_send_recv == Call(0..MaxRLen)

\* line 139: rlength is any unsigned the caller passes; one more than fits
hid_send_recv_long == Call({RECEIVE_BUF_SIZE + 1})

\* line 53 wrote past the end of receive_buf: the behaviour is undefined, the
\* process may die at any later point or run on
Crash ==
    /\ pc # "exited"
    /\ overrun > 0
    /\ Terminated

\* lines 94-96: the outcome slot is reset and the receive is submitted
Submit ==
    /\ pc = "again"
    /\ nbytes_received' = 0
    /\ inflight' = TRUE
    /\ t_status' = "NONE"
    /\ t_actual_length' = 0
    /\ submits' = submits + 1
    /\ pc' = "send"
    /\ wire' = <<>>
    /\ UNCHANGED <<session, handle, call, receive_buf, overrun, result, reply_len,
                   sends, cancels, ntimeouts, lastop>>

\* lines 98-108: the synchronous control transfer; it processes the context's
\* events while it waits, so the armed receive may complete inside it.  A
\* failed send cancels the receive and write_read returns -1.
Send ==
    /\ pc = "send"
    /\ \E r \in {Len(data)} \cup SendErrors, ev \in Events(inflight, rlength, submits) :
          /\ Deliver(ev)
          /\ result' = r
          /\ sends' = sends + 1
          /\ IF SendFailed(r)
             THEN /\ cancels' = cancels + 1
                  /\ reply_len' = -1
                  /\ pc' = "ret"
             ELSE /\ UNCHANGED <<cancels, reply_len>>
                  /\ pc' = "wait"
    /\ UNCHANGED <<session, handle, data, rlength, submits, lastop>>

\* lines 110-123: one turn of the wait loop, a libusb_handle_events call
Dispatch ==
    /\ pc = "wait"
    /\ NoOutcomeYet(nbytes_received)
    /\ \E r \in {0} \cup DispatchErrors, ev \in Events(inflight, rlength, submits) :
          /\ Deliver(ev)
          /\ result' = r
          /\ IF IsFatalDispatch(r)
             THEN reply_len' = r /\ pc' = "ret"
             ELSE UNCHANGED <<reply_len, pc>>
    /\ UNCHANGED <<session, handle, data, rlength, submits, sends, cancels, lastop>>

\* lines 110 and 125-130: the outcome is set and is a timeout: goto again
Retry ==
    /\ pc = "wait"
    /\ ~NoOutcomeYet(nbytes_received)
    /\ IsRetry(nbytes_received)
    /\ pc' = RetryTarget
    /\ UNCHANGED <<session, handle, call, xfer, counts, result, reply_len, lastop>>

\* lines 110, 125 and 131: the outcome is set and is returned
Return ==
    /\ pc = "wait"
    /\ ~NoOutcomeYet(nbytes_received)
    /\ ~IsRetry(nbytes_received)
    /\ reply_len' = nbytes_received
    /\ pc' = "ret"
    /\ UNCHANGED <<session, handle, call, xfer, counts, result, lastop>>

\* lines 155-172: hid_send_recv hands the reply to its caller
Accept ==
    /\ pc = "ret"
    /\ ReplyAccepted(reply_len, rlength)
    /\ pc' = "idle"
    /\ UNCHANGED <<session, handle, call, xfer, counts, result, reply_len, lastop>>

\* lines 155-162: a negative status or a wrong length ends the process
Exit ==
    /\ pc = "ret"
    /\ ~ReplyAccepted(reply_len, rlength)
    /\ Terminated

Next ==
    \/ hid_init_ok
    \/ hid_init_notfound
    \/ hid_init_exit
    \/ hid_close
    \/ hid_send_recv
    \/ Submit
    \/ Send
    \/ Dispatch
    \/ Retry
    \/ Return
    \/ Accept
    \/ Exit

Spec == Init /\ [][Next]_vars

\* a dispatch call in which the transport completes the pending receive
DispatchDelivers == Dispatch /\ inflight /\ ~inflight'

\* The single flow of control keeps running: each call into the transport
\* returns and the program takes its next step; the transport completes every
\* receive it was given.  The caller of the API may stop calling at any time.
Fairness ==
    /\ WF_vars(Submit) /\ WF_vars(Send) /\ WF_vars(Dispatch)
    /\ WF_vars(Retry) /\ WF_vars(Return) /\ WF_vars(Accept) /\ WF_vars(Exit)
    /\ WF_vars(DispatchDelivers)

SpecFair == Spec /\ Fairness

\* the program with callers that also ask for a reply longer than receive_buf
NextLong ==
    \/ Next
    \/ hid_send_recv_long
    \/ Crash

SpecLong == Init /\ [][NextLong]_vars

TypeOK ==
    /\ pc \in {"idle", "again", "send", "wait", "ret", "exited"}
    /\ ctx \in {NULL, 1} /\ dev \in {NULL, 1}
    /\ transfer \in {NULL} \cup Handles
    /\ live \subseteq Handles
    /\ Len(rdata) = rlength
    /\ t_status \in TransferStatus \cup {"NONE"}
    /\ submits \in 0..MaxAttempts

\* ----------------------------------------------------------------- claims
\* hid_send_recv has handed a reply to its caller and no other call followed
Delivered == pc = "idle" /\ lastop = "hid_send_recv"

\* the outcome codes that end the call, as the callback records them
FatalStatuses == TransferStatus \ {"COMPLETED", "TIMED_OUT"}
FatalCode(st) ==
    CASE st = "CANCELLED" -> LIBUSB_ERROR_INTERRUPTED
      [] st = "NO_DEVICE" -> LIBUSB_ERROR_NO_DEVICE
      [] OTHER -> LIBUSB_ERROR_IO

\* C1: when a transaction succeeds the caller holds exactly rlength bytes, and
\* they are the bytes of the attempt that completed, the ones the callback
\* recorded in receive_buf, not those of an earlier attempt that timed out.
C1_SuccessReturnsCompletedBytes ==
    Delivered =>
        /\ reply_len = rlength
        /\ Len(rdata) = rlength
        /\ t_status = "COMPLETED"
        /\ t_actual_length = rlength
        /\ rdata = wire
        /\ SubSeq(receive_buf, 1, rlength) = wire

\* a reply of the longest length handed over after one attempt timed out
C1_Witness == Delivered /\ rlength = MaxRLen /\ ntimeouts = 1 /\ submits = 2

\* C2: a completion whose length differs from the expected one is reported as
\* a mismatch: once it is recorded the engine's next step hands that length to
\* hid_send_recv, and no reply of another length is handed to the caller.
C2_MismatchReported ==
    [][/\ (pc = "wait" /\ t_status = "COMPLETED" /\ t_actual_length # rlength)
            => (pc' = "ret" /\ reply_len' = t_actual_length)
       /\ (pc = "ret" /\ t_status = "COMPLETED" /\ reply_len # rlength)
            => pc' = "exited"]_vars

C4_FatalOutcomeEndsCall ==
    [][(pc = "wait" /\ t_status \in FatalStatuses)
          => /\ pc' = "ret"
             /\ reply_len' = FatalCode(t_status)
             /\ submits' = submits /\ sends' = sends /\ cancels' = cancels]_vars

\* the call ended by a NoDevice outcome after a single attempt
C4_Witness ==
    /\ pc = "ret" /\ t_status = "NO_DEVICE" /\ reply_len = LIBUSB_ERROR_NO_DEVICE
    /\ submits = 1 /\ sends = 1 /\ cancels = 0

\* C5: a failed send cancels the receive once and returns -1 without waiting;
\* no other step of a transaction cancels.
C5_CancelOnlyOnSendFailure ==
    [][/\ (pc = "send" /\ result' < 0)
            => (cancels' = cancels + 1 /\ pc' = "ret" /\ reply_len' = -1)
       /\ (pc \in {"again", "send", "wait", "ret"} /\ ~(pc = "send" /\ result' < 0)
           /\ pc' # "exited")
            => cancels' = cancels
       /\ cancels' <= 1]_vars

\* the send of a retry failed: one cancellation, the call returns -1
C5_Witness ==
    pc = "ret" /\ cancels = 1 /\ reply_len = -1 /\ sends = 2 /\ result \in SendErrors

C7_AtMostOneOutstanding ==
    [][submits' = submits + 1 => ~inflight]_vars

\* a resubmission after a timeout, the receive armed again
C7_Witness == pc = "send" /\ submits = 2 /\ ntimeouts = 1 /\ inflight

\* C8: a dispatch call that reports busy, timeout, overflow or interrupted
\* leaves the call in the wait loop; any other negative code ends the call
\* with that code; neither submits, sends or cancels.
C8_DispatchCodes ==
    [][(pc = "wait" /\ nbytes_received = 0)
          => /\ (result' \in {LIBUSB_ERROR_BUSY, LIBUSB_ERROR_TIMEOUT,
                             LIBUSB_ERROR_OVERFLOW, LIBUSB_ERROR_INTERRUPTED}
                    => (pc' = "wait" /\ reply_len' = reply_len))
             /\ (result' < 0 /\ result' \notin {LIBUSB_ERROR_BUSY, LIBUSB_ERROR_TIMEOUT,
                             LIBUSB_ERROR_OVERFLOW, LIBUSB_ERROR_INTERRUPTED}
                    => (pc' = "ret" /\ reply_len' = result'))
             /\ submits' = submits /\ sends' = sends /\ cancels' = cancels]_vars

\* the wait loop still dispatching after an overflow code
C8_Witness ==
    pc = "wait" /\ result = LIBUSB_ERROR_OVERFLOW /\ nbytes_received = 0 /\ inflight

\* C9 as stated: every TimedOut outcome restarts the transaction, so the call
\* never returns from an attempt whose outcome was TimedOut.
C9_EveryTimeoutRestarts == pc = "ret" => t_status # "TIMED_OUT"

\* C9 amended: the timeout code is never returned, and a TimedOut outcome the
\* wait loop reads restarts the transaction, whatever the number of attempts.
C9_ObservedTimeoutRestarts ==
    [][/\ (pc = "wait" /\ t_status = "TIMED_OUT")
            => (pc' = "again" /\ reply_len' = reply_len)
       /\ pc' = "ret" => reply_len' # LIBUSB_ERROR_TIMEOUT]_vars

\* the transaction restarted after a timeout
C9_Witness == pc = "again" /\ ntimeouts = 1 /\ t_status = "TIMED_OUT" /\ submits = 1

\* C10: the descriptor is allocated by the first transaction after hid_init
\* only, stays the same until hid_close frees it, and no step of a
\* transaction frees it.
C10_HandleLifetime ==
    [][/\ (transfer = NULL /\ transfer' # NULL)
            => (pc = "idle" /\ lastop = "hid_init" /\ lastop' = "hid_send_recv"
                /\ live' = live \cup {transfer'} /\ transfer' \notin live)
       /\ (transfer # NULL /\ pc' # "exited")
            => \/ (transfer' = transfer /\ live' = live)
               \/ (pc = "idle" /\ lastop' = "hid_close"
                   /\ transfer' = NULL /\ live' = live \ {transfer})]_vars

\* a later transaction retrying on the descriptor the first one allocated
C10_Witness ==
    pc = "send" /\ submits = 2 /\ transfer # NULL /\ live = {transfer} /\ receive_buf[1] # 0

C12_TransactionEnds == (pc = "again") ~> (pc \in {"ret", "idle", "exited"})

\* how write_read came to return: the failure that occurred, or success
ResultKind ==
    CASE cancels = 1 -> "SendFailure"
      [] cancels = 0 /\ IsFatalDispatch(result) -> "DispatchError"
      [] cancels = 0 /\ ~IsFatalDispatch(result) /\ t_status = "COMPLETED" -> "Success"
      [] cancels = 0 /\ ~IsFatalDispatch(result) /\ t_status = "CANCELLED" -> "Cancelled"
      [] cancels = 0 /\ ~IsFatalDispatch(result) /\ t_status = "NO_DEVICE" -> "NoDevice"
      [] OTHER -> "IOError"

\* C13: the value write_read returns tells the failure: negative for every
\* failure, the positive byte count for success, and the values the Cancelled,
\* NoDevice and I/O error outcomes yield are yielded by no other kind.
C13_ResultIdentifiesFailure ==
    pc = "ret" =>
        /\ ResultKind = "Success" => (reply_len > 0 /\ reply_len = t_actual_length)
        /\ ResultKind # "Success" => reply_len < 0
        /\ reply_len = LIBUSB_ERROR_INTERRUPTED => ResultKind = "Cancelled"
        /\ reply_len = LIBUSB_ERROR_NO_DEVICE => ResultKind = "NoDevice"
        /\ reply_len = LIBUSB_ERROR_IO => ResultKind = "IOError"

\* the step in which the transport ran the callback
CallbackRan == inflight /\ ~inflight' /\ pc' # "exited"

\* the value of the outcome slot that matches a status
OutcomeCode(st, n) ==
    CASE st = "COMPLETED" -> n
      [] st = "TIMED_OUT" -> LIBUSB_ERROR_TIMEOUT
      [] OTHER -> FatalCode(st)

\* the first n bytes of receive_buf are now those of the transfer, the rest
\* is as it was
CopiedIntoReceiveBuf(n) ==
    /\ SubSeq(receive_buf', 1, n) = wire'
    /\ \A i \in (n + 1)..RECEIVE_BUF_SIZE : receive_buf'[i] = receive_buf[i]

\* C14 as stated: on every invocation, whatever the status, the callback sets
\* the outcome slot to the value of that status and copies actual_length
\* bytes of the transfer into receive_buf.
C14_CallbackAlwaysCopies ==
    [][CallbackRan
          => /\ nbytes_received' = OutcomeCode(t_status', t_actual_length')
             /\ CopiedIntoReceiveBuf(t_actual_length')]_vars

\* C14 amended: the slot gets the value of the status on every invocation;
\* actual_length bytes are copied when the status is COMPLETED and nothing is
\* copied for any other status.
C14_CallbackCopiesOnCompletion ==
    [][CallbackRan
          => /\ nbytes_received' = OutcomeCode(t_status', t_actual_length')
             /\ IF t_status' = "COMPLETED"
                THEN CopiedIntoReceiveBuf(t_actual_length')
                ELSE receive_buf' = receive_buf]_vars

\* a receive that timed out with one byte in the transfer buffer, receive_buf
\* untouched
C14_Witness ==
    /\ t_status = "TIMED_OUT" /\ t_actual_length = 1 /\ nbytes_received = LIBUSB_ERROR_TIMEOUT
    /\ rdata[1] # 0 /\ receive_buf[1] = 0

\* C15: the outcome recorded for an attempt is the one the engine branches on
\* next, with no dispatch call in between, whether the callback ran in the
\* send or in a dispatch call; the slot is cleared only by a submission.
C15_OutcomeConsumedOnce ==
    [][/\ (pc = "wait" /\ t_status # "NONE")
            => IF t_status = "TIMED_OUT"
               THEN pc' = "again"
               ELSE pc' = "ret" /\ reply_len' = OutcomeCode(t_status, t_actual_length)
       /\ (nbytes_received # 0 /\ nbytes_received' = 0 /\ pc' # "exited")
            => submits' = submits + 1]_vars

\* C16: the callback never copies more bytes than receive_buf holds.
C16_CopyFitsBuffer ==
    /\ overrun = 0
    /\ t_status = "COMPLETED" => t_actual_length <= RECEIVE_BUF_SIZE

\* C17: when hid_close has returned no descriptor is allocated and ctx is
\* NULL, whatever calls came before.
C17_CloseReleasesAll ==
    (pc = "idle" /\ lastop = "hid_close")
        => (ctx = NULL /\ transfer = NULL /\ live = {})
====
